---------------------------- MODULE Spec2Model ----------------------------
(***************************************************************************)
(* A model of src/utils/helpers.py: SummarizationDataset (sorted batching, *)
(* lazy encoding, cache, shuffling through numpy's global random state),   *)
(* Evaluator (generate_summaries / get_bertscore) and train_model.         *)
(*                                                                         *)
(* Conventions.  Python lists and numpy arrays are sequences; a position   *)
(* or cursor keeps the source's 0-based value, so element `it` of an array *)
(* is arr[it + 1].  Values of different Python types that share a slot     *)
(* (the integer 0 of np.zeros, a list of pairs, a BatchEncoding) are       *)
(* records tagged by `kind`.                                               *)
(***************************************************************************)
EXTENDS Integers, Sequences, FiniteSets, TLC

VARIABLES
    dataset,    \* d -> the fields of SummarizationDataset object d, or Absent
    rng,        \* the state of numpy's global generator (np.random)
    ghost,      \* d -> history of object d (never read by the code)
    evaluator,  \* the fields of the Evaluator object, or Absent
    evlog,      \* history of the Evaluator (never read by the code)
    train,      \* the frame of the running train_model call
    enc         \* the inputs and the result of encoding one batch on its own

vars == <<dataset, rng, ghost, evaluator, evlog, train, enc>>

-----------------------------------------------------------------------------
(* Bounds of the model *)

MaxPairs == 4       \* pairs handed to a constructor that is not traversed
MaxWalkPairs == 3   \* pairs of a dataset that is traversed
MaxTwoPairs == 2    \* pairs of each of two datasets traversed side by side
MaxBatch == 2       \* largest batch_size
MaxIters == 2       \* traversals started per dataset
MaxFails == 1       \* encoder failures per dataset
MaxContext == 2     \* largest context_size
MaxSummary == 2     \* tokens of a summary encoded on its own
MaxPipes == 2       \* pipelines of an Evaluator
MaxTexts == 2       \* held-out pairs of an Evaluator
MaxCalls == 3       \* calls made on an Evaluator
MaxTrainPairs == 2  \* pairs of the dataset handed to train_model
MaxEpochs == 2      \* largest epochs argument of train_model

-----------------------------------------------------------------------------
(* Python values *)

None == -1
Absent == [kind |-> "absent"]
Zero == [kind |-> "zero"]
RawBatch(pairs) == [kind |-> "batch", pairs |-> pairs]
NoCache == [kind |-> "none"]
CacheArray(slots) == [kind |-> "array", slots |-> slots]

DS == {1, 2}

\* a // b of Python for a >= 0 and b # 0 (floor division)
FloorDiv(a, b) ==
    IF b > 0 THEN a \div b ELSE 0 - ((a + (0 - b) - 1) \div (0 - b))

RECURSIVE SeqSum(_)
SeqSum(s) == IF s = <<>> THEN 0 ELSE Head(s) + SeqSum(Tail(s))

Range(s) == {s[i] : i \in DOMAIN s}

Max(S) == CHOOSE x \in S : \A y \in S : y <= x

-----------------------------------------------------------------------------
(* The inputs: pair j is a (text, summary) tuple.  A text is its sequence  *)
(* of words, a summary its sequence of token ids; 0 is the pad id.         *)

WordsOf(j) == ((j * 2) % 3) + 1
TextOf(j) == [k \in 1..WordsOf(j) |-> j]
SummaryOf(j) == [k \in 1..((j % 3) + 1) |-> IF k = 2 THEN 0 ELSE j]
Pair(j) == <<TextOf(j), SummaryOf(j)>>

\* every list of distinct pairs among the first n, of any length
PairLists(n) ==
    UNION {{[k \in 1..len |-> Pair(f[k])] :
                f \in {g \in [1..len -> 1..n] :
                          \A a, b \in 1..len : a # b => g[a] # g[b]}} :
           len \in 0..n}

\* the list Pair(1), ..., Pair(n)
PairRun(n) == [k \in 1..n |-> Pair(k)]


-----------------------------------------------------------------------------
(* count_words and the sort of __init__ *)

count_words(text) == Len(text)

InsertBeforeEqual(sorted, x) ==
    LET n == Cardinality({k \in DOMAIN sorted :
                             count_words(sorted[k][1]) < count_words(x[1])})
    IN  SubSeq(sorted, 1, n) \o <<x>> \o SubSeq(sorted, n + 1, Len(sorted))
\* x placed after every element whose key is <= its own: Python's sorted is
\* stable, so equal keys keep their input order
InsertByKey(sorted, x) ==
    LET n == Cardinality({k \in DOMAIN sorted :
                             count_words(sorted[k][1]) <= count_words(x[1])})
    IN  SubSeq(sorted, 1, n) \o <<x>> \o SubSeq(sorted, n + 1, Len(sorted))

RECURSIVE SortFrom(_, _)
SortFrom(sorted, rest) ==
    IF rest = <<>> THEN sorted
    ELSE SortFrom(InsertByKey(sorted, Head(rest)), Tail(rest))

SortedByWords(texts_summaries) == SortFrom(<<>>, texts_summaries)

NumBatches(num_texts, batch_size) == FloorDiv(num_texts, batch_size)

BatchSliceOverlapping(sorted, i, batch_size) ==
    SubSeq(sorted, i + 1, i + batch_size)
\* texts_summaries[i*batch_size:(i+1)*batch_size], i counted from 0
BatchSlice(sorted, i, batch_size) ==
    SubSeq(sorted, i * batch_size + 1, (i + 1) * batch_size)

TextBatches(sorted, n, batch_size) ==
    [k \in 1..n |-> RawBatch(BatchSlice(sorted, k - 1, batch_size))]

NewCache(n, use_cache) ==
    IF use_cache THEN CacheArray([k \in 1..n |-> Zero]) ELSE NoCache

-----------------------------------------------------------------------------
(* numpy's global generator.  The Mersenne Twister is abstracted to a      *)
(* full-period congruential generator on 8 states: what matters is that    *)
(* seeding fixes the state, every draw advances it and a permutation is a  *)
(* function of the state it starts from.                                   *)

RngStates == 0..7
SeedState(seed) == seed % 8
RngNext(s) == (5 * s + 3) % 8
RngValue(s) == s \div 2

\* np.random.seed(seed): the states the generator can be in afterwards
Seeded(seed) == IF seed = None THEN RngStates ELSE {SeedState(seed)}

Swap(x, a, b) ==
    [k \in DOMAIN x |-> IF k = a THEN x[b] ELSE IF k = b THEN x[a] ELSE x[k]]

\* the shuffle inside np.random.permutation: for i = n-1 down to 1, swap
\* x[i] with x[j], j drawn from 0..i
RECURSIVE Shuffle(_, _, _)
Shuffle(x, i, s) ==
    IF i < 1 THEN [perm |-> x, state |-> s]
    ELSE LET s1 == RngNext(s)
             j == RngValue(s1) % (i + 1)
         IN  Shuffle(Swap(x, i + 1, j + 1), i - 1, s1)

\* np.random.permutation(n): a sequence of the 0-based indices 0..n-1
Permutation(n, s) == Shuffle([k \in 1..n |-> k - 1], n - 1, s)

\* arr[permutation] (numpy index array): a new array
Take(arr, permutation) == [k \in DOMAIN permutation |-> arr[permutation[k] + 1]]

-----------------------------------------------------------------------------
(* Encoding a batch: __next__, lines 178-196 *)

pad_token_id == 0
IgnoreId == -100

Truncate(ids, max_length) ==
    SubSeq(ids, 1, IF Len(ids) < max_length THEN Len(ids) ELSE max_length)

PadTo(ids, n, pad) == [k \in 1..n |-> IF k <= Len(ids) THEN ids[k] ELSE pad]

\* tokenizer(rows, padding=True, max_length=.., truncation=True)["input_ids"]
Tokenize(rows, max_length, pad) ==
    LET cut == [r \in DOMAIN rows |-> Truncate(rows[r], max_length)]
        width == IF rows = <<>> THEN 0 ELSE Max({Len(cut[r]) : r \in DOMAIN cut})
    IN  [r \in DOMAIN rows |-> PadTo(cut[r], width, pad)]

\* self.encoder(texts): the fields a tokenizer-backed encoder returns
EncodeTexts(texts, max_length, pad) ==
    LET ids == Tokenize(texts, max_length, pad)
    IN  [key \in {"input_ids", "attention_mask"} |->
            IF key = "input_ids" THEN ids
            ELSE [r \in DOMAIN ids |->
                     [k \in DOMAIN ids[r] |->
                         IF k <= Len(Truncate(texts[r], max_length)) THEN 1 ELSE 0]]]

\* masks from the first pad id of a row to the end of the row
MaskFromFirstPad(summ_encodings, pad) ==
    [r \in DOMAIN summ_encodings |->
        [k \in DOMAIN summ_encodings[r] |->
            IF \E j \in 1..k : summ_encodings[r][j] = pad THEN IgnoreId
            ELSE summ_encodings[r][k]]]
\* filt = summ_encodings == pad_token_id; summ_encodings[filt] = -100
MaskPadding(summ_encodings, pad) ==
    [r \in DOMAIN summ_encodings |->
        [k \in DOMAIN summ_encodings[r] |->
            IF summ_encodings[r][k] = pad THEN IgnoreId
            ELSE summ_encodings[r][k]]]

\* BatchEncoding({**text_encodings, "labels": summ_encodings})
BatchEncoding(text_encodings, summ_encodings) ==
    [kind |-> "enc",
     data |-> [key \in DOMAIN text_encodings \cup {"labels"} |->
                  IF key = "labels" THEN summ_encodings
                  ELSE text_encodings[key]]]

\* lines 179-196 for a tokenizer whose pad id is `pad`
EncodeWith(pairs, context_size, pad) ==
    LET texts == [k \in DOMAIN pairs |-> pairs[k][1]]
        summaries == [k \in DOMAIN pairs |-> pairs[k][2]]
        text_encodings == EncodeTexts(texts, context_size, pad)
        summ_encodings == Tokenize(summaries, context_size, pad)
    IN  BatchEncoding(text_encodings, MaskPadding(summ_encodings, pad))

EncodeBatch(pairs, context_size) == EncodeWith(pairs, context_size, pad_token_id)

\* bool(cached[it]): the 0 of np.zeros is false, a BatchEncoding is a mapping
\* that always holds "labels", so it is true
Truthy(slot) == slot.kind = "enc" /\ DOMAIN slot.data # {}

-----------------------------------------------------------------------------
(* SummarizationDataset.  The history of object d: origin, the batches as  *)
(* built by __init__; order, the origin index of the batch now at each     *)
(* position; the calls made to the encoder and the tokenizer per origin    *)
(* batch; the batches returned; the order at the start of each traversal;  *)
(* the outcome of the last call.                                           *)

NoCall == [op |-> "none"]

NewGhost(batches, texts_summaries) ==
    [input |-> texts_summaries,
     origin |-> batches,
     order |-> [k \in DOMAIN batches |-> k],
     enc_calls |-> [k \in DOMAIN batches |-> 0],
     tok_calls |-> [k \in DOMAIN batches |-> 0],
     visits |-> [k \in DOMAIN batches |-> 0],
     orders |-> <<>>,
     returned |-> <<>>,
     fails |-> 0,
     last |-> NoCall]

\* __init__ raises before any field is set: ZeroDivisionError at line 133
\* for batch_size = 0, ValueError at line 136 for a negative number of batches
InitError(num_texts, batch_size) ==
    IF batch_size = 0 THEN "ZeroDivisionError"
    ELSE IF NumBatches(num_texts, batch_size) < 0 THEN "ValueError"
    ELSE "none"

NewDataset(texts_summaries, batch_size, context_size, use_cache, shuffle, seed) ==
    LET sorted == SortedByWords(texts_summaries)
        n == NumBatches(Len(sorted), batch_size)
    IN  [kind |-> "dataset",
         num_batches |-> n,
         text_batches |-> TextBatches(sorted, n, batch_size),
         cached |-> NewCache(n, use_cache),
         batch_size |-> batch_size,
         context_size |-> context_size,
         shuffle |-> shuffle,
         seed |-> seed,
         it |-> None]

\* SummarizationDataset.__init__
DatasetInit(d, texts_summaries, batch_size, context_size, use_cache, shuffle, seed) ==
    /\ dataset[d] = Absent
    /\ ghost[d].last = NoCall
    /\ IF InitError(Len(texts_summaries), batch_size) # "none"
       THEN /\ ghost' = [ghost EXCEPT ![d] =
                   [last |-> [op |-> "init", result |-> "raise",
                              error |-> InitError(Len(texts_summaries), batch_size)]]]
            /\ UNCHANGED <<dataset, rng>>
       ELSE LET new == NewDataset(texts_summaries, batch_size, context_size,
                                  use_cache, shuffle, seed)
            IN  /\ dataset' = [dataset EXCEPT ![d] = new]
                /\ rng' \in Seeded(seed)
                /\ ghost' = [ghost EXCEPT ![d] =
                       [NewGhost(new.text_batches, texts_summaries) EXCEPT
                           !.last = [op |-> "init", result |-> "ok",
                                     input |-> texts_summaries]]]

\* len(dataset)
DatasetLen(d) == dataset[d].num_batches

\* the cache after the shuffle of __iter__ (lines 162-163)
IterCachedStale(cached, permutation) == cached
IterCached(cached, permutation) ==
    IF cached.kind = "array"
    THEN CacheArray(Take(cached.slots, permutation))
    ELSE cached

\* SummarizationDataset.__iter__
DatasetIter(d) ==
    LET self == dataset[d]
        drawn == Permutation(self.num_batches, rng)
    IN  /\ self.kind = "dataset"
        /\ IF self.shuffle
           THEN /\ dataset' = [dataset EXCEPT ![d] =
                       [self EXCEPT
                           !.it = 0,
                           !.text_batches = Take(self.text_batches, drawn.perm),
                           !.cached = IterCached(self.cached, drawn.perm)]]
                /\ rng' = drawn.state
                /\ ghost' = [ghost EXCEPT ![d] =
                       [@ EXCEPT
                           !.order = Take(@, drawn.perm),
                           !.orders = Append(@, Take(ghost[d].order, drawn.perm)),
                           !.returned = <<>>,
                           !.last = [op |-> "iter"]]]
           ELSE /\ dataset' = [dataset EXCEPT ![d] = [self EXCEPT !.it = 0]]
                /\ rng' = rng
                /\ ghost' = [ghost EXCEPT ![d] =
                       [@ EXCEPT
                           !.orders = Append(@, ghost[d].order),
                           !.returned = <<>>,
                           !.last = [op |-> "iter"]]]

Bump(f, k) == [f EXCEPT ![k] = @ + 1]

StoreNothing(self, it, batch_encodings) == self
StoreKeepingRaw(self, it, batch_encodings) ==
    IF self.cached.kind = "array"
    THEN [self EXCEPT !.cached = CacheArray([self.cached.slots EXCEPT
                                                ![it + 1] = batch_encodings])]
    ELSE self
\* the cache and the raw batches after a miss was encoded (lines 199-201)
Store(self, it, batch_encodings) ==
    IF self.cached.kind = "array"
    THEN [self EXCEPT !.cached = CacheArray([self.cached.slots EXCEPT
                                                ![it + 1] = batch_encodings]),
                      !.text_batches = [@ EXCEPT ![it + 1] = Zero]]
    ELSE self

\* SummarizationDataset.__next__; `fail` is the collaborator that raises in
\* this call, if one is reached: "encoder", "tokenizer" or "none"
DatasetNext(d, fail) ==
    LET self == dataset[d]
        g == ghost[d]
        it == self.it
        b == g.order[it + 1]
        moved == [self EXCEPT !.it = it + 1]
        raw == self.text_batches[it + 1]
    IN  /\ self.kind = "dataset"
        /\ rng' = rng
        /\ IF self.it = None \/ self.it = self.num_batches
           THEN \* StopIteration, line 169
                /\ fail = "none"
                /\ dataset' = dataset
                /\ ghost' = [ghost EXCEPT ![d] =
                       [@ EXCEPT !.last = [op |-> "next", result |-> "stop"]]]
           ELSE IF self.cached.kind = "array" /\ Truthy(self.cached.slots[it + 1])
           THEN \* cache hit, line 176
                /\ fail = "none"
                /\ dataset' = [dataset EXCEPT ![d] = moved]
                /\ ghost' = [ghost EXCEPT ![d] =
                       [@ EXCEPT !.visits = Bump(@, b),
                                 !.returned = Append(@, it),
                                 !.last = [op |-> "next", result |-> "batch",
                                           hit |-> TRUE, pos |-> it, batch |-> b,
                                           value |-> self.cached.slots[it + 1]]]]
           ELSE IF raw.kind # "batch"
           THEN \* iterating the integer 0 at line 181: TypeError
                /\ fail = "none"
                /\ dataset' = [dataset EXCEPT ![d] = moved]
                /\ ghost' = [ghost EXCEPT ![d] =
                       [@ EXCEPT !.last = [op |-> "next", result |-> "raise",
                                           error |-> "TypeError", pos |-> it]]]
           ELSE IF fail # "none"
           THEN \* the encoder (line 183) or the tokenizer (line 184) raises
                /\ g.fails < MaxFails
                /\ dataset' = [dataset EXCEPT ![d] = moved]
                /\ ghost' = [ghost EXCEPT ![d] =
                       [@ EXCEPT !.enc_calls = Bump(@, b),
                                 !.tok_calls = IF fail = "tokenizer"
                                               THEN Bump(@, b) ELSE @,
                                 !.fails = @ + 1,
                                 !.last = [op |-> "next", result |-> "raise",
                                           error |-> fail, pos |-> it]]]
           ELSE LET batch_encodings == EncodeBatch(raw.pairs, self.context_size)
                IN  /\ dataset' = [dataset EXCEPT ![d] =
                           Store(moved, it, batch_encodings)]
                    /\ ghost' = [ghost EXCEPT ![d] =
                           [@ EXCEPT !.enc_calls = Bump(@, b),
                                     !.tok_calls = Bump(@, b),
                                     !.visits = Bump(@, b),
                                     !.returned = Append(@, it),
                                     !.last = [op |-> "next", result |-> "batch",
                                               hit |-> FALSE, pos |-> it,
                                               batch |-> b,
                                               value |-> batch_encodings]]]

Fails == {"none", "encoder", "tokenizer"}

-----------------------------------------------------------------------------
(* Specifications of the dataset *)

IdleTrain == [pc |-> "idle"]
NoEncoding == [kind |-> "absent"]

NoObjects ==
    /\ dataset = [d \in DS |-> Absent]
    /\ ghost = [d \in DS |-> [last |-> NoCall]]
    /\ evaluator = Absent
    /\ evlog = <<>>
    /\ train = IdleTrain
    /\ enc = NoEncoding

otherThanDataset == <<evaluator, evlog, train, enc>>

BatchSizes == (0 - 1)..MaxBatch
Seeds == {None, 1}

\* Construction alone, over every list of distinct pairs
InitCons == NoObjects /\ rng = 0

AllPairLists == PairLists(MaxPairs)

Construct ==
    /\ dataset[1] = Absent
    /\ \E texts_summaries \in AllPairLists, batch_size \in BatchSizes,
       context_size \in {1, MaxContext}, use_cache \in BOOLEAN,
       shuffle \in BOOLEAN, seed \in Seeds :
        DatasetInit(1, texts_summaries, batch_size, context_size,
                    use_cache, shuffle, seed)
    /\ UNCHANGED otherThanDataset

NextCons == Construct

SpecCons == InitCons /\ [][NextCons]_vars

\* One dataset, constructed and then traversed
InitDS == NoObjects /\ rng = 0

ConstructWalk ==
    /\ dataset[1] = Absent
    /\ \E n \in 0..MaxWalkPairs, batch_size \in 1..MaxBatch,
          use_cache \in BOOLEAN, shuffle \in BOOLEAN, seed \in Seeds :
        DatasetInit(1, PairRun(n), batch_size, MaxContext,
                    use_cache, shuffle, seed)
    /\ UNCHANGED otherThanDataset

Iter ==
    /\ dataset[1].kind = "dataset"
    /\ Len(ghost[1].orders) < MaxIters
    /\ DatasetIter(1)
    /\ UNCHANGED otherThanDataset

Step == \E fail \in Fails : DatasetNext(1, fail) /\ UNCHANGED otherThanDataset

NextDS == ConstructWalk \/ Iter \/ Step

SpecDS == InitDS /\ [][NextDS]_vars

\* Two datasets built from the same pairs, sharing the process's generator
InitTwo == NoObjects /\ rng = 0

ConstructTwo ==
    \E d \in DS :
        /\ dataset[d] = Absent
        /\ \E seed \in {0, 1} :
              DatasetInit(d, PairRun(MaxTwoPairs), 1, MaxContext,
                          FALSE, TRUE, seed)
        /\ UNCHANGED otherThanDataset

IterTwo ==
    \E d \in DS :
        /\ dataset[d].kind = "dataset"
        /\ Len(ghost[d].orders) < MaxIters
        /\ DatasetIter(d)
        /\ UNCHANGED otherThanDataset

StepTwo == \E d \in DS : DatasetNext(d, "none") /\ UNCHANGED otherThanDataset

NextTwo == ConstructTwo \/ IterTwo \/ StepTwo

SpecTwo == InitTwo /\ [][NextTwo]_vars

-----------------------------------------------------------------------------
(* Properties of the dataset *)

\* the encoding of the batch built at construction as origin batch b
EncodingOf(d, b) ==
    EncodeBatch(ghost[d].origin[b].pairs, dataset[d].context_size)

ReturnedBatch(d) ==
    /\ ghost[d].last.op = "next"
    /\ ghost[d].last.result = "batch"

\* C1: with use_cache and shuffle, whatever traversals were started, stepped
\* and restarted, every populated cache slot i holds the encoding of the
\* pairs of the batch now at position i, and a step at position i returns
\* the encoding of the batch now at position i.
C1_CacheFollowsBatch ==
    LET self == dataset[1]
        g == ghost[1]
    IN  (self.kind = "dataset" /\ self.cached.kind = "array" /\ self.shuffle) =>
            /\ \A i \in 1..self.num_batches :
                  self.cached.slots[i].kind = "enc" =>
                      self.cached.slots[i] = EncodingOf(1, g.order[i])
            /\ ReturnedBatch(1) =>
                  g.last.value = EncodingOf(1, g.order[g.last.pos + 1])

\* a second traversal, started before the first one finished, hits the cache
\* at a batch that the shuffles moved away from the position it was built at
C1_Witness ==
    LET self == dataset[1]
        g == ghost[1]
    IN  /\ self.kind = "dataset" /\ self.cached.kind = "array" /\ self.shuffle
        /\ Len(g.orders) = 2
        /\ \E b \in DOMAIN g.visits : g.visits[b] = 0
        /\ ReturnedBatch(1) /\ g.last.hit
        /\ g.order[g.last.pos + 1] # g.last.pos + 1
        /\ g.orders[1] # g.orders[2]

\* C4: with use_cache, as long as the encoder and the tokenizer return, each
\* is invoked once per batch, in the first step that reaches the batch: a
\* batch never stepped on was never encoded, a batch stepped on was encoded
\* once however often it was stepped on, a hit returns the encoding stored
\* by that first step, and after a complete traversal every batch has been
\* encoded exactly once.
C4_EncodedOncePerBatch ==
    LET self == dataset[1]
        g == ghost[1]
        once(b) == IF g.visits[b] > 0 THEN 1 ELSE 0
    IN  (self.kind = "dataset" /\ self.cached.kind = "array" /\ g.fails = 0) =>
            /\ \A b \in DOMAIN g.origin :
                  g.enc_calls[b] = once(b) /\ g.tok_calls[b] = once(b)
            /\ (ReturnedBatch(1) /\ g.last.hit) =>
                  g.last.value = EncodingOf(1, g.last.batch)
            /\ (ReturnedBatch(1) /\ g.visits[g.last.batch] > 1) => g.last.hit
            /\ self.it = self.num_batches =>
                  \A b \in DOMAIN g.origin : g.enc_calls[b] = 1

\* the last step of a complete second traversal is a hit on a batch that was
\* encoded once and returned twice
C4_Witness ==
    LET self == dataset[1]
        g == ghost[1]
    IN  /\ self.kind = "dataset" /\ self.cached.kind = "array" /\ g.fails = 0
        /\ self.num_batches >= 2
        /\ Len(g.orders) = 2
        /\ self.it = self.num_batches
        /\ ReturnedBatch(1) /\ g.last.hit
        /\ \A b \in DOMAIN g.origin : g.visits[b] = 2 /\ g.enc_calls[b] = 1

RECURSIVE Concat(_)
Concat(batches) ==
    IF batches = <<>> THEN <<>>
    ELSE Head(batches).pairs \o Concat(Tail(batches))

Constructed(d) ==
    /\ dataset[d].kind = "dataset"
    /\ ghost[d].last.op = "init"

\* C6: for batch_size b >= 1 and N >= 0 pairs, the constructed dataset has
\* N // b batches, each of exactly b pairs, that are the consecutive runs of
\* the sorted list, and the last N mod b pairs of the sorted list are in no
\* batch.
C6_FullBatchesOnly ==
    Constructed(1) =>
        LET self == dataset[1]
            input == ghost[1].last.input
            N == Len(input)
            b == self.batch_size
            sorted == SortedByWords(input)
        IN  b >= 1 =>
                /\ DatasetLen(1) = N \div b
                /\ Len(self.text_batches) = N \div b
                /\ \A k \in DOMAIN self.text_batches :
                      /\ self.text_batches[k].kind = "batch"
                      /\ Len(self.text_batches[k].pairs) = b
                /\ Concat(self.text_batches) = SubSeq(sorted, 1, N - (N % b))
                /\ \A j \in (N - (N % b) + 1)..N :
                      \A k \in DOMAIN self.text_batches :
                          sorted[j] \notin Range(self.text_batches[k].pairs)

\* a full batch of two pairs and one pair left over
C6_Witness ==
    /\ Constructed(1)
    /\ dataset[1].batch_size = 2
    /\ Len(ghost[1].last.input) = 3
    /\ DatasetLen(1) = 1
    /\ Len(dataset[1].text_batches[1].pairs) = 2

\* C5: two datasets built from the same pairs with shuffle and the same seed
\* have the same batch order in their k-th traversal, for every k, however
\* their constructions and traversal starts are interleaved.
C5_SameSeedSameOrder ==
    (/\ dataset[1].kind = "dataset" /\ dataset[2].kind = "dataset"
     /\ dataset[1].seed = dataset[2].seed) =>
        \A k \in DOMAIN ghost[1].orders \cap DOMAIN ghost[2].orders :
            ghost[1].orders[k] = ghost[2].orders[k]

-----------------------------------------------------------------------------
(* The encoding of one batch, over every small batch: texts of one or two  *)
(* words, summaries of token ids 0..2, either of 0 and 1 as the pad id.    *)

SeqsUpTo(S, n) == UNION {[1..len -> S] : len \in 1..n}

EncPairs == {<<t, s>> : t \in {<<1>>, <<1, 2>>}, s \in SeqsUpTo(0..2, MaxSummary)}

InitEnc ==
    /\ dataset = [d \in DS |-> Absent]
    /\ ghost = [d \in DS |-> [last |-> NoCall]]
    /\ rng = 0
    /\ evaluator = Absent
    /\ evlog = <<>>
    /\ train = IdleTrain
    /\ enc \in [kind : {"input"}, pairs : SeqsUpTo(EncPairs, 2),
                context_size : 1..MaxContext, pad : {0, 1}]

Encode ==
    /\ enc.kind = "input"
    /\ enc' = [kind |-> "encoded", pairs |-> enc.pairs,
               context_size |-> enc.context_size, pad |-> enc.pad,
               result |-> EncodeWith(enc.pairs, enc.context_size, enc.pad)]
    /\ UNCHANGED <<dataset, rng, ghost, evaluator, evlog, train>>

NextEnc == Encode

SpecEnc == InitEnc /\ [][NextEnc]_vars

\* C10: labels is the tokenized, padded summary ids with every id equal to
\* the pad id replaced by -100 and every other id unchanged, and every field
\* of the text encoding is in the batch unchanged.
C10_LabelsMaskPadding ==
    enc.kind = "encoded" =>
        LET texts == [k \in DOMAIN enc.pairs |-> enc.pairs[k][1]]
            summaries == [k \in DOMAIN enc.pairs |-> enc.pairs[k][2]]
            ids == Tokenize(summaries, enc.context_size, enc.pad)
            text_encodings == EncodeTexts(texts, enc.context_size, enc.pad)
            labels == enc.result.data["labels"]
        IN  /\ DOMAIN labels = DOMAIN ids
            /\ \A r \in DOMAIN ids :
                  /\ DOMAIN labels[r] = DOMAIN ids[r]
                  /\ \A k \in DOMAIN ids[r] :
                        /\ ids[r][k] = enc.pad => labels[r][k] = -100
                        /\ ids[r][k] # enc.pad => labels[r][k] = ids[r][k]
            /\ DOMAIN enc.result.data = DOMAIN text_encodings \cup {"labels"}
            /\ \A key \in DOMAIN text_encodings :
                  enc.result.data[key] = text_encodings[key]

\* a batch of two summaries: the first holds the pad id before another id,
\* the second is shorter and is padded
C10_Witness ==
    /\ enc.kind = "encoded"
    /\ Len(enc.pairs) = 2
    /\ enc.pairs[1][2] = <<enc.pad, 2>>
    /\ Len(enc.pairs[2][2]) = 1
    /\ enc.pairs[2][2][1] # enc.pad
    /\ enc.result.data["labels"][1] = <<-100, 2>>
    /\ enc.result.data["labels"][2][2] = -100

-----------------------------------------------------------------------------
(* Evaluator.  Held-out pair i is (<<"text", i>>, <<"ref", i>>); pipeline p *)
(* maps text i to the summary <<"gen", p, i>>.  evlog is the sequence of   *)
(* the calls made, each with what it was handed and what it did.           *)

HeldOut(i) == <<(<<"text", i>>), (<<"ref", i>>)>>

\* texts_summaries as given: a list of pairs, or one pair (lines 212-213)
AsList(texts_summaries) ==
    IF texts_summaries.kind = "list" THEN texts_summaries.items
    ELSE <<texts_summaries.item>>

\* pipeline(self.texts)
RunPipeline(pipeline, texts) ==
    [k \in DOMAIN texts |-> <<"gen", pipeline, texts[k][2]>>]

\* Evaluator.__init__
NewEvaluator(pipelines, texts_summaries) ==
    LET pairs == AsList(texts_summaries)
    IN  [kind |-> "evaluator",
         pipelines |-> pipelines,
         texts |-> [k \in DOMAIN pairs |-> pairs[k][1]],
         summaries |-> [k \in DOMAIN pairs |-> pairs[k][2]],
         generated_summaries |-> <<>>]

ExtendReplacing(summaries, summary) == summary
\* summaries.extend(summary)
Extend(summaries, summary) == summaries \o summary

\* the loop of generate_summaries over the pipelines not yet run
RECURSIVE GenerateFrom(_, _, _)
GenerateFrom(summaries, pipelines, texts) ==
    IF pipelines = <<>> THEN summaries
    ELSE GenerateFrom(Extend(summaries, RunPipeline(Head(pipelines), texts)),
                      Tail(pipelines), texts)

\* the list generate_summaries returns: one time per pipeline
TimeTaken(pipelines) == [k \in DOMAIN pipelines |-> <<"ms", pipelines[k]>>]

\* list *= n  (in place)
RECURSIVE Repeat(_, _)
Repeat(list, n) == IF n <= 0 THEN <<>> ELSE list \o Repeat(list, n - 1)

AlwaysGenerate(generated_summaries) == TRUE
\* not self.generated_summaries (line 232)
NoSummariesYet(generated_summaries) == generated_summaries = <<>>

\* bert_scorer.score(cands, refs): one value per candidate/reference pair;
\* it raises on an empty reference list (refs[0]) and on lists of different
\* lengths
ScorerRaises(cands, refs) == refs = <<>> \/ Len(cands) # Len(refs)

PairScore(cand, ref) == IF cand[3] = ref[2] THEN 1 ELSE 0

Score(cands, refs) ==
    [metric \in {"P", "R", "F"} |->
        [k \in DOMAIN cands |-> PairScore(cands[k], refs[k])]]

\* metric.reshape((num_pipelines, -1)).mean(dim=1): a mean is <<sum, count>>
RowMeans(metric, num_pipelines) ==
    LET width == Len(metric) \div num_pipelines
    IN  [row \in 1..num_pipelines |->
            <<SeqSum(SubSeq(metric, (row - 1) * width + 1, row * width)), width>>]

ReshapeRaises(metric, num_pipelines) ==
    num_pipelines = 0 \/ Len(metric) % num_pipelines # 0

EvaluatorInit(pipelines, texts_summaries) ==
    /\ evaluator = Absent
    /\ evaluator' = NewEvaluator(pipelines, texts_summaries)
    /\ evlog' = <<[op |-> "init", generate |-> FALSE, pipelines |-> pipelines,
                   summaries |-> NewEvaluator(pipelines, texts_summaries).summaries]>>

\* Evaluator.generate_summaries
GenerateSummaries ==
    /\ evaluator.kind = "evaluator"
    /\ Len(evlog) <= MaxCalls
    /\ evaluator' = [evaluator EXCEPT !.generated_summaries =
                        GenerateFrom(@, evaluator.pipelines, evaluator.texts)]
    /\ evlog' = Append(evlog,
                   [op |-> "generate",
                    generate |-> TRUE,
                    before |-> evaluator.generated_summaries,
                    after |-> GenerateFrom(evaluator.generated_summaries,
                                           evaluator.pipelines, evaluator.texts),
                    invoked |-> evaluator.pipelines,
                    result |-> TimeTaken(evaluator.pipelines)])

\* Evaluator.get_bertscore
GetBertscore ==
    LET self == evaluator
        generate == NoSummariesYet(self.generated_summaries)
        generated == IF generate
                     THEN GenerateFrom(self.generated_summaries,
                                       self.pipelines, self.texts)
                     ELSE self.generated_summaries
        num_pipelines == Len(self.pipelines)
        summaries == Repeat(self.summaries, num_pipelines)
        raises == \/ ScorerRaises(generated, summaries)
                  \/ ReshapeRaises(generated, num_pipelines)
        metrics == Score(generated, summaries)
    IN  /\ self.kind = "evaluator"
        /\ Len(evlog) <= MaxCalls
        /\ evaluator' = [self EXCEPT !.generated_summaries = generated,
                                     !.summaries = summaries]
        /\ evlog' = Append(evlog,
               [op |-> "bertscore",
                generate |-> generate,
                before |-> self.generated_summaries,
                after |-> generated,
                invoked |-> IF generate THEN self.pipelines ELSE <<>>,
                cands |-> generated,
                refs |-> summaries,
                result |-> IF raises THEN "raise" ELSE "metrics",
                metrics |-> IF raises THEN <<>>
                            ELSE [m \in DOMAIN metrics |->
                                     RowMeans(metrics[m], num_pipelines)]])

otherThanEvaluator == <<dataset, rng, ghost, train, enc>>

InitEval == NoObjects /\ rng = 0

Pipelines(n) == [k \in 1..n |-> k]

EvaluatorInputs ==
    {[kind |-> "list", items |-> [k \in 1..n |-> HeldOut(k)]] : n \in 0..MaxTexts}
        \cup {[kind |-> "pair", item |-> HeldOut(1)]}

EvInit ==
    /\ evaluator = Absent
    /\ \E n \in 0..MaxPipes, texts_summaries \in EvaluatorInputs :
          EvaluatorInit(Pipelines(n), texts_summaries)
    /\ UNCHANGED otherThanEvaluator

EvGenerate == GenerateSummaries /\ UNCHANGED otherThanEvaluator

EvBertscore == GetBertscore /\ UNCHANGED otherThanEvaluator

NextEval == EvInit \/ EvGenerate \/ EvBertscore

SpecEval == InitEval /\ [][NextEval]_vars

-----------------------------------------------------------------------------
(* Properties of the Evaluator *)

\* the runs of generate_summaries among the first k calls, whether called
\* directly or by get_bertscore
GenRuns(k) == Cardinality({j \in 1..k : evlog[j].generate})

\* C7: on every call of get_bertscore made when generate_summaries has run
\* exactly once, a second or later call included, the references handed to
\* the scorer are the held-out reference summaries repeated once per
\* pipeline, as many as the generated summaries.
C7_ReferencesOncePerPipeline ==
    \A k \in DOMAIN evlog :
        (evlog[k].op = "bertscore" /\ GenRuns(k) = 1) =>
            /\ evlog[k].refs = Repeat(evlog[1].summaries, Len(evlog[1].pipelines))
            /\ Len(evlog[k].refs) = Len(evlog[k].cands)

\* C8: get_bertscore called with no generated summaries invokes every
\* pipeline once, in registration order; called with generated summaries it
\* invokes none; every metric it returns has one mean per pipeline.
C8_GeneratesOnlyWhenEmpty ==
    \A k \in DOMAIN evlog :
        evlog[k].op = "bertscore" =>
            /\ evlog[k].before = <<>> => evlog[k].invoked = evlog[1].pipelines
            /\ evlog[k].before # <<>> => evlog[k].invoked = <<>>
            /\ evlog[k].result = "metrics" =>
                  \A m \in DOMAIN evlog[k].metrics :
                      Len(evlog[k].metrics[m]) = Len(evlog[1].pipelines)

\* the first call made on an evaluator of two pipelines is get_bertscore: it
\* runs both pipelines and returns the metrics
C8_Witness ==
    /\ Len(evlog) >= 2
    /\ evlog[2].op = "bertscore"
    /\ evlog[2].invoked = <<1, 2>>
    /\ evlog[2].result = "metrics"
    /\ DOMAIN evlog[2].metrics = {"P", "R", "F"}
    /\ Len(evlog[2].metrics["F"]) = 2

\* the outputs one run of generate_summaries appends: pipeline 1 on every
\* text, then pipeline 2 on every text, ...
RunOutputs(P, texts) ==
    [idx \in 1..(P * Len(texts)) |->
        <<"gen", ((idx - 1) \div Len(texts)) + 1,
                 texts[((idx - 1) % Len(texts)) + 1][2]>>]

\* C9: generate_summaries only appends: after k runs with P pipelines over n
\* texts the accumulated list has k*P*n entries; each run leaves the list it
\* found as a prefix and appends the outputs of pipeline 1, then of pipeline
\* 2, ... in registration order; each call returns P timings.
C9_GenerateAppends ==
    evaluator.kind = "evaluator" =>
        LET P == Len(evaluator.pipelines)
            n == Len(evaluator.texts)
        IN  /\ Len(evaluator.generated_summaries) = GenRuns(Len(evlog)) * P * n
            /\ \A k \in DOMAIN evlog :
                  evlog[k].op = "generate" =>
                      /\ evlog[k].after =
                            evlog[k].before \o RunOutputs(P, evaluator.texts)
                      /\ Len(evlog[k].result) = P
                      /\ evlog[k].after =
                            IF k = Len(evlog) THEN evaluator.generated_summaries
                            ELSE evlog[k + 1].before

\* generate_summaries called twice with two pipelines over two texts
C9_Witness ==
    /\ Len(evlog) = 3
    /\ evlog[2].op = "generate" /\ evlog[3].op = "generate"
    /\ Len(evaluator.pipelines) = 2 /\ Len(evaluator.texts) = 2
    /\ Len(evaluator.generated_summaries) = 8
    /\ evlog[3].before # <<>>

-----------------------------------------------------------------------------
(* train_model over dataset 1.  `train` is the frame of the call: pc, the  *)
(* statement it is at, and its locals; a mean is the pair <<total, count>>.*)
(* Its history: steps, the optimizer steps taken; scheduled, the losses    *)
(* handed to scheduler.step; losses, the batch losses of each epoch;       *)
(* events, the calls made on the collaborators in order; failure, where a  *)
(* batch raised.                                                           *)

Losses == {1, 2}
NoFailure == [at |-> "none"]

Mean(total, count) == <<total, count>>

Event(name, t) == [call |-> name, epoch |-> t.epoch, batch |-> t.batch]

\* lines 251-257: the frame when the first epoch is about to start
NewTrain(epochs, scheduler, num_batches) ==
    [pc |-> "epoch", epochs |-> epochs, scheduler |-> scheduler,
     num_batches |-> num_batches, epoch |-> 0, batch |-> 0,
     epoch_loss |-> 0, epoch_losses |-> <<>>, loss |-> 0,
     steps |-> 0, scheduled |-> <<>>, losses |-> <<>>, events |-> <<>>,
     failure |-> NoFailure, result |-> <<>>]

TrainCall(epochs, scheduler) ==
    /\ train = IdleTrain
    /\ dataset[1].kind = "dataset"
    /\ train' = NewTrain(epochs, scheduler, DatasetLen(1))
    /\ UNCHANGED <<dataset, rng, ghost, evaluator, evlog, enc>>

\* line 258, and line 262 when a traversal starts: enumerate(dataset)
\* calls __iter__; after the last epoch, line 320
TrainEpoch ==
    /\ train.pc = "epoch"
    /\ IF train.epoch < train.epochs
       THEN /\ DatasetIter(1)
            /\ train' = [train EXCEPT
                   !.pc = "fetch", !.batch = 0, !.epoch_loss = 0,
                   !.losses = Append(@, <<>>),
                   !.events = Append(@, Event("iter", train))]
       ELSE /\ train' = [train EXCEPT !.pc = "returned",
                                      !.result = train.epoch_losses]
            /\ UNCHANGED <<dataset, rng, ghost>>
    /\ UNCHANGED <<evaluator, evlog, enc>>

\* line 262: the for statement calls __next__, outside the try block
TrainFetch ==
    /\ train.pc = "fetch"
    /\ \E fail \in Fails :
          /\ DatasetNext(1, fail)
          /\ train' =
                IF ghost'[1].last.result = "stop"
                THEN [train EXCEPT !.pc = "epoch_end"]
                ELSE IF ghost'[1].last.result = "batch"
                THEN [train EXCEPT !.pc = "to_device",
                                   !.events = Append(@, Event("next", train))]
                ELSE [train EXCEPT !.pc = "raised",
                                   !.failure = [at |-> "next",
                                                epoch |-> train.epoch,
                                                batch |-> train.batch],
                                   !.events = Append(@, Event("next", train))]
    /\ UNCHANGED <<evaluator, evlog, enc>>

ExceptAppendingPartial(t, at) ==
    [t EXCEPT !.pc = "returned",
              !.result = Append(t.epoch_losses, Mean(t.epoch_loss, t.num_batches)),
              !.failure = [at |-> at, epoch |-> t.epoch, batch |-> t.batch],
              !.events = Append(@, Event(at, t))]
\* lines 272-277: the exception is caught and epoch_losses returned
Except(t, at) ==
    [t EXCEPT !.pc = "returned",
              !.result = t.epoch_losses,
              !.failure = [at |-> at, epoch |-> t.epoch, batch |-> t.batch],
              !.events = Append(@, Event(at, t))]

\* one statement of the try block that either raises or goes on to `next`
TryStatement(at, next) ==
    /\ train.pc = at
    /\ \E raises \in BOOLEAN :
          train' = IF raises THEN Except(train, at)
                   ELSE [train EXCEPT !.pc = next,
                                      !.events = Append(@, Event(at, train))]
    /\ UNCHANGED <<dataset, rng, ghost, evaluator, evlog, enc>>

\* line 264
TrainToDevice == TryStatement("to_device", "forward")

\* line 267
TrainForward ==
    /\ train.pc = "forward"
    /\ \/ train' = Except(train, "forward")
       \/ \E loss \in Losses :
             train' = [train EXCEPT !.pc = "zero_grad", !.loss = loss,
                                    !.events = Append(@, Event("forward", train))]
    /\ UNCHANGED <<dataset, rng, ghost, evaluator, evlog, enc>>

TrainZeroGradThenStep == TryStatement("zero_grad", "step")
\* line 268
TrainZeroGrad == TryStatement("zero_grad", "backward")

\* line 269
TrainBackward == TryStatement("backward", "step")

\* line 270, and lines 279-305 when it returns
TrainOptimizerStep ==
    /\ train.pc = "step"
    /\ \/ train' = Except(train, "step")
       \/ train' = [train EXCEPT
              !.pc = "fetch",
              !.steps = @ + 1,
              !.epoch_loss = @ + train.loss,
              !.batch = @ + 1,
              !.losses = [@ EXCEPT ![Len(@)] = Append(@, train.loss)],
              !.events = Append(@, Event("step", train))]
    /\ UNCHANGED <<dataset, rng, ghost, evaluator, evlog, enc>>

SchedulerStepOfTotal(t, epoch_loss) ==
    IF t.scheduler
    THEN [t EXCEPT !.scheduled = Append(@, Mean(t.epoch_loss, 1)),
                   !.events = Append(@, Event("scheduler", t))]
    ELSE t
\* lines 311-312: scheduler.step(epoch_loss) when a scheduler was given
SchedulerStep(t, epoch_loss) ==
    IF t.scheduler
    THEN [t EXCEPT !.scheduled = Append(@, epoch_loss),
                   !.events = Append(@, Event("scheduler", t))]
    ELSE t

\* lines 307-319; epoch_loss / num_batches raises ZeroDivisionError for a
\* dataset without batches
TrainEpochEnd ==
    /\ train.pc = "epoch_end"
    /\ IF train.num_batches = 0
       THEN train' = [train EXCEPT !.pc = "raised",
                                   !.failure = [at |-> "mean",
                                                epoch |-> train.epoch,
                                                batch |-> train.batch]]
       ELSE LET epoch_loss == Mean(train.epoch_loss, train.num_batches)
            IN  train' = [SchedulerStep(train, epoch_loss) EXCEPT
                    !.pc = "epoch",
                    !.epoch = @ + 1,
                    !.epoch_losses = Append(@, epoch_loss)]
    /\ UNCHANGED <<dataset, rng, ghost, evaluator, evlog, enc>>

InitTrain == NoObjects /\ rng = 0

TrainConstruct ==
    /\ dataset[1] = Absent
    /\ \E n \in 0..MaxTrainPairs, batch_size \in 1..MaxBatch,
          use_cache \in BOOLEAN, shuffle \in BOOLEAN :
        DatasetInit(1, PairRun(n), batch_size, MaxContext,
                    use_cache, shuffle, 1)
    /\ UNCHANGED otherThanDataset

TrainStart ==
    \E epochs \in 0..MaxEpochs, scheduler \in BOOLEAN :
        TrainCall(epochs, scheduler)

NextTrain ==
    \/ TrainConstruct
    \/ TrainStart
    \/ TrainEpoch
    \/ TrainFetch
    \/ TrainToDevice
    \/ TrainForward
    \/ TrainZeroGrad
    \/ TrainBackward
    \/ TrainOptimizerStep
    \/ TrainEpochEnd

SpecTrain == InitTrain /\ [][NextTrain]_vars

-----------------------------------------------------------------------------
(* Properties of train_model *)

TryStatements == {"to_device", "forward", "zero_grad", "backward", "step"}

\* C2: an exception raised while a batch is processed (device move, forward,
\* zero-grad, backward, optimizer step) is caught and ends the training at
\* once: the call returns, nothing is fetched or stepped after the failure,
\* and the list returned holds the mean loss of each epoch completed before
\* it and nothing for the epoch of the failure.
C2_BatchErrorEndsTraining ==
    train.pc # "idle" /\ train.failure.at \in TryStatements =>
        LET f == train.failure
        IN  /\ train.pc = "returned"
            /\ train.events[Len(train.events)] =
                  [call |-> f.at, epoch |-> f.epoch, batch |-> f.batch]
            /\ dataset[1].it = f.batch + 1
            /\ train.steps = f.epoch * train.num_batches + f.batch
            /\ Len(train.scheduled) = IF train.scheduler THEN f.epoch ELSE 0
            /\ Len(train.result) = f.epoch
            /\ \A i \in DOMAIN train.result :
                  /\ Len(train.losses[i]) = train.num_batches
                  /\ train.result[i] =
                        <<SeqSum(train.losses[i]), train.num_batches>>

\* backward raises on the second batch of the second epoch
C2_Witness ==
    /\ train.pc = "returned"
    /\ train.failure.at = "backward"
    /\ train.failure.epoch = 1 /\ train.failure.batch = 1
    /\ train.num_batches = 2
    /\ Len(train.result) = 1
    /\ train.result[1] = <<3, 2>>

\* C3: when the step of the dataset raises while producing a batch,
\* train_model does not raise: it returns a list of fewer losses than the
\* epochs requested.
C3_DatasetErrorIsCaught ==
    train.pc # "idle" /\ train.failure.at = "next" =>
        /\ train.pc = "returned"
        /\ Len(train.result) < train.epochs

-----------------------------------------------------------------------------
(* An unshuffled dataset built from any list of distinct pairs and then    *)
(* traversed                                                               *)

InitOrder == NoObjects /\ rng = 0

ConstructOrder ==
    /\ dataset[1] = Absent
    /\ \E texts_summaries \in AllPairLists, batch_size \in 1..MaxBatch,
          use_cache \in BOOLEAN :
        DatasetInit(1, texts_summaries, batch_size, MaxContext,
                    use_cache, FALSE, 1)
    /\ UNCHANGED otherThanDataset

IterOrder ==
    /\ dataset[1].kind = "dataset"
    /\ Len(ghost[1].orders) < MaxIters
    /\ DatasetIter(1)
    /\ UNCHANGED otherThanDataset

StepOrder == DatasetNext(1, "none") /\ UNCHANGED otherThanDataset

NextOrder == ConstructOrder \/ IterOrder \/ StepOrder

SpecOrder == InitOrder /\ [][NextOrder]_vars

\* the position of pair x in the list
IndexOf(list, x) == CHOOSE k \in DOMAIN list : list[k] = x

WordsIn(batch) ==
    SeqSum([k \in DOMAIN batch.pairs |-> count_words(batch.pairs[k][1])])

\* C11: before any shuffle the pairs, read batch after batch, are in
\* ascending order of the word count of their text, pairs of equal word count
\* in their input order, so the average word count of a batch does not
\* decrease with the batch index; an unshuffled traversal returns the
\* batches in that order.
C11_BatchesSortedByWords ==
    dataset[1].kind = "dataset" =>
        LET g == ghost[1]
            all == Concat(g.origin)
        IN  /\ g.order = [k \in DOMAIN g.origin |-> k]
            /\ \A i, j \in DOMAIN all :
                  i < j =>
                      /\ count_words(all[i][1]) <= count_words(all[j][1])
                      /\ count_words(all[i][1]) = count_words(all[j][1]) =>
                            IndexOf(g.input, all[i]) < IndexOf(g.input, all[j])
            /\ \A k \in DOMAIN g.origin :
                  k + 1 \in DOMAIN g.origin =>
                      WordsIn(g.origin[k]) * Len(g.origin[k + 1].pairs)
                          <= WordsIn(g.origin[k + 1]) * Len(g.origin[k].pairs)
            /\ \A k \in DOMAIN g.origin :
                  g.visits[k] = 0 => dataset[1].text_batches[k] = g.origin[k]
            /\ ReturnedBatch(1) =>
                  /\ g.last.batch = g.last.pos + 1
                  /\ g.last.value = EncodingOf(1, g.last.pos + 1)

\* the input holds two texts of three words, pair 4 before pair 1, ahead of
\* shorter texts; the traversal has returned the last of four batches
C11_Witness ==
    /\ dataset[1].kind = "dataset"
    /\ ghost[1].input = <<Pair(4), Pair(1), Pair(2), Pair(3)>>
    /\ Concat(ghost[1].origin) = <<Pair(3), Pair(2), Pair(4), Pair(1)>>
    /\ ReturnedBatch(1)
    /\ ghost[1].last.pos = 3

-----------------------------------------------------------------------------
(* Construction with a batch size that is not positive                     *)

\* C12: a construction with batch_size <= 0 raises and produces no dataset,
\* whatever the number of pairs and whether or not a cache is asked for: a
\* dataset that exists was constructed with a batch size of at least one.
C12_NonPositiveBatchSizeFails ==
    dataset[1].kind = "dataset" => dataset[1].batch_size >= 1

-----------------------------------------------------------------------------
(* Further properties of train_model *)

BatchFailures == TryStatements \cup {"next"}

Ended == train.pc \in {"returned", "raised"}

\* C13: a call of train_model in which no batch fails returns a list of
\* exactly `epochs` entries whose i-th entry is the sum of the losses of the
\* batches of epoch i divided by the number of batches of the dataset.
C13_ReturnsMeanLossPerEpoch ==
    Ended /\ train.failure.at \notin BatchFailures =>
        /\ train.pc = "returned"
        /\ Len(train.result) = train.epochs
        /\ \A i \in DOMAIN train.result :
              /\ Len(train.losses[i]) = train.num_batches
              /\ train.result[i] =
                    Mean(SeqSum(train.losses[i]), train.num_batches)

-----------------------------------------------------------------------------
(* The cursor of a traversal *)

\* positions 0 .. n-1 in order
Positions(n) == [k \in 1..n |-> k - 1]

\* C14: a traversal is finite. Before a traversal is started a step signals
\* the end of the sequence; once one is started the cursor is between 0 and
\* len(dataset), the steps that returned a batch since then returned the
\* positions 0, 1, ... once each and in order, a traversal whose cursor has
\* reached len(dataset) has returned exactly len(dataset) batches, and a step
\* signals the end of the sequence only there.
C14_TraversalIsFinite ==
    dataset[1].kind = "dataset" =>
        LET self == dataset[1]
            g == ghost[1]
        IN  /\ g.orders = <<>> => self.it = None /\ g.returned = <<>>
            /\ g.orders # <<>> => self.it \in 0..DatasetLen(1)
            /\ g.returned = Positions(Len(g.returned))
            /\ Len(g.returned) <= DatasetLen(1)
            /\ self.it = DatasetLen(1) => Len(g.returned) = DatasetLen(1)
            /\ g.last.op = "next" /\ g.last.result = "stop" =>
                  self.it = None \/ self.it = DatasetLen(1)

-----------------------------------------------------------------------------
(* The scheduler and the order of the calls of train_model *)

EventsOf(name) == {k \in DOMAIN train.events : train.events[k].call = name}

\* C15: with a scheduler, its step is called once for each completed epoch
\* and for no other: the values passed are the mean losses of the list of
\* epoch losses, in order; each call comes right after the optimizer step of
\* the last batch of its epoch and, if anything follows, right before the
\* traversal of the next epoch starts; no call is made for the epoch in which
\* a batch failed.
C15_SchedulerOncePerEpoch ==
    train.pc # "idle" /\ train.scheduler =>
        LET ev == train.events
        IN  /\ train.scheduled = train.epoch_losses
            /\ Len(train.scheduled) = train.epoch
            /\ \A e \in 0..(train.epoch - 1) :
                  Cardinality({k \in EventsOf("scheduler") : ev[k].epoch = e}) = 1
            /\ \A k \in EventsOf("scheduler") :
                  /\ ev[k].epoch < train.epoch
                  /\ k > 1
                  /\ ev[k - 1] = [call |-> "step", epoch |-> ev[k].epoch,
                                  batch |-> train.num_batches - 1]
                  /\ k < Len(ev) =>
                        /\ ev[k + 1].call = "iter"
                        /\ ev[k + 1].epoch = ev[k].epoch + 1
            /\ train.failure.at \in BatchFailures =>
                  \A k \in EventsOf("scheduler") :
                      ev[k].epoch # train.failure.epoch

\* two epochs of two batches completed with a scheduler, which was stepped
\* with the means 3/2 and 4/2
C15_Witness ==
    /\ train.pc = "returned"
    /\ train.scheduler
    /\ train.failure.at = "none"
    /\ train.num_batches = 2
    /\ train.scheduled = <<Mean(3, 2), Mean(4, 2)>>
    /\ train.result = train.scheduled

InTry == train.pc \in TryStatements

\* C16: as long as no batch has failed, train_model has started one
\* traversal of the dataset for each epoch begun and the dataset was permuted
\* no more often; every batch yielded got one optimizer step, which follows
\* the fetch, the device move, the forward pass, zero-grad and backward of
\* that batch in this order; a run that has ended has made
\* epochs * len(dataset) optimizer steps, and one that returns has made
\* epochs traversals.
C16_OneTraversalPerEpochOneStepPerBatch ==
    train.pc # "idle" /\ train.failure.at \notin BatchFailures =>
        LET ev == train.events
            begun == IF train.pc \in {"epoch", "returned"}
                     THEN train.epoch ELSE train.epoch + 1
        IN  /\ Cardinality(EventsOf("iter")) = begun
            /\ \A e \in 0..(begun - 1) :
                  Cardinality({k \in EventsOf("iter") : ev[k].epoch = e}) = 1
            /\ Len(ghost[1].orders) = begun
            /\ Cardinality(EventsOf("step")) = train.steps
            /\ Cardinality(EventsOf("next")) =
                  train.steps + (IF InTry THEN 1 ELSE 0)
            /\ SeqSum(ghost[1].visits) = Cardinality(EventsOf("next"))
            /\ \A k \in EventsOf("step") :
                  /\ k > 5
                  /\ \A i \in 0..5 :
                        /\ ev[k - i].epoch = ev[k].epoch
                        /\ ev[k - i].batch = ev[k].batch
                  /\ <<ev[k - 5].call, ev[k - 4].call, ev[k - 3].call,
                       ev[k - 2].call, ev[k - 1].call>> =
                          <<"next", "to_device", "forward", "zero_grad",
                            "backward">>
            /\ Ended => train.steps = train.epochs * train.num_batches
            /\ train.pc = "returned" => train.epoch = train.epochs

\* two epochs over a shuffled dataset of two batches ended without failure:
\* two traversals, four optimizer steps
C16_Witness ==
    /\ train.pc = "returned"
    /\ train.failure.at = "none"
    /\ dataset[1].shuffle
    /\ train.epochs = 2 /\ train.num_batches = 2
    /\ Len(ghost[1].orders) = 2
    /\ train.steps = 4

-----------------------------------------------------------------------------
(* The cache and the raw batches *)

\* C17: with a cache, at every position either the slot is populated and the
\* raw batch was dropped, or the slot is empty and the raw batch holds the
\* pairs of the batch now at that position; so no miss finds the placeholder
\* instead of pairs. Without a cache every raw batch keeps its pairs.
C17_SlotOrRawBatch ==
    dataset[1].kind = "dataset" =>
        LET self == dataset[1]
            g == ghost[1]
        IN  /\ \A k \in DOMAIN self.text_batches :
                  IF self.cached.kind = "array"
                  THEN \/ /\ Truthy(self.cached.slots[k])
                          /\ self.text_batches[k] = Zero
                       \/ /\ self.cached.slots[k] = Zero
                          /\ self.text_batches[k] = g.origin[g.order[k]]
                  ELSE self.text_batches[k] = g.origin[g.order[k]]
            /\ g.last.op = "next" /\ g.last.result = "raise" =>
                  g.last.error # "TypeError"

\* in the second traversal of a shuffled, cached dataset a miss has just been
\* encoded while another slot is still empty and its raw batch in place
C17_Witness ==
    LET self == dataset[1]
        g == ghost[1]
    IN  /\ self.kind = "dataset" /\ self.cached.kind = "array" /\ self.shuffle
        /\ Len(g.orders) = 2
        /\ ReturnedBatch(1) /\ ~g.last.hit
        /\ Truthy(self.cached.slots[g.last.pos + 1])
        /\ self.text_batches[g.last.pos + 1] = Zero
        /\ \E k \in DOMAIN self.text_batches :
              /\ self.cached.slots[k] = Zero
              /\ self.text_batches[k].kind = "batch"

-----------------------------------------------------------------------------
(* The reference summaries held by the evaluator *)

\* C18: get_bertscore leaves the reference summaries of the evaluator as
\* they were loaded at construction: after any calls the stored list is that
\* list, of the same length and in the same order.
C18_BertscoreKeepsReferences ==
    evaluator.kind = "evaluator" =>
        /\ Len(evaluator.summaries) = Len(evlog[1].summaries)
        /\ evaluator.summaries = evlog[1].summaries

-----------------------------------------------------------------------------
(* train_model over a dataset without batches *)

\* C19: train_model called with at least one epoch over a dataset of zero
\* batches returns to its caller; it does not end with an exception.
C19_ZeroBatchesReturns ==
    train.pc # "idle" /\ train.num_batches = 0 /\ train.epochs >= 1 =>
        train.pc # "raised"

-----------------------------------------------------------------------------
(* A step of the dataset whose encoder or tokenizer raises *)

\* C20: a step that fails because the encoder or the tokenizer raised leaves
\* the dataset as it was: the cursor is still at the position of the failed
\* batch, whose raw pairs are retained and whose cache slot is empty, so the
\* next step attempts the same batch.
C20_FailedStepChangesNothing ==
    LET self == dataset[1]
        g == ghost[1]
    IN  (/\ self.kind = "dataset"
         /\ g.last.op = "next" /\ g.last.result = "raise"
         /\ g.last.error \in {"encoder", "tokenizer"}) =>
            /\ self.it = g.last.pos
            /\ self.text_batches[g.last.pos + 1] = g.origin[g.order[g.last.pos + 1]]
            /\ self.cached.kind = "array" =>
                  self.cached.slots[g.last.pos + 1] = Zero

=============================================================================
